---- MODULE Spec2Model ----
(***************************************************************************)
(* Focus-mode enforcement engine of mindful-desktop-companion:             *)
(* the app-identity normalizer and whitelist matcher (pure functions),     *)
(* the FocusModeProvider state machine of the renderer (React state,       *)
(* effects, timer callbacks, persisted settings) and the focus-popup       *)
(* surface of the Electron main process.                                   *)
(*                                                                         *)
(* Strings are sequences of one-character strings, so that lower-casing,   *)
(* suffix stripping, whitespace collapsing, substring and word matching    *)
(* are computed as the JavaScript code computes them.                      *)
(***************************************************************************)
EXTENDS Integers, Sequences, FiniteSets, TLC

(* ---------------------------------------------------------------------- *)
(* Bounds                                                                  *)
(* ---------------------------------------------------------------------- *)
\* number of suffixes stacked on a base name in the inputs of normalize
MaxSuffixes == 2
\* longest whitelist handed to the matcher in the pure-function inputs
MaxPureWl == 2

(* ---------------------------------------------------------------------- *)
(* JavaScript string primitives                                            *)
(* ---------------------------------------------------------------------- *)
\* the value null / undefined of a string-typed state; no string equals it
Null == <<"null">>

\* a notification id that is null or undefined
NoId == "null"

\* JavaScript truthiness of a string | null value
Truthy(x) == x # Null /\ x # <<>>

UpperChars == <<"A","B","C","D","E","F","G","H","I","J","K","L","M",
                "N","O","P","Q","R","S","T","U","V","W","X","Y","Z">>

LowerChars == <<"a","b","c","d","e","f","g","h","i","j","k","l","m",
                "n","o","p","q","r","s","t","u","v","w","x","y","z">>

ToLowerChar(c) ==
  IF \E i \in 1..26 : UpperChars[i] = c
    THEN LowerChars[CHOOSE i \in 1..26 : UpperChars[i] = c]
    ELSE c

\* String.prototype.toLowerCase
ToLowerCase(s) == [i \in 1..Len(s) |-> ToLowerChar(s[i])]

\* the characters matched by \s
IsSpace(c) == c \in {" ", "\t"}

EndsWith(s, suf) ==
  /\ Len(s) >= Len(suf)
  /\ SubSeq(s, Len(s) - Len(suf) + 1, Len(s)) = suf

\* s.replace(/<suf>$/, '') for a literal suffix
StripSuffix(s, suf) ==
  IF EndsWith(s, suf) THEN SubSeq(s, 1, Len(s) - Len(suf)) ELSE s

RECURSIVE DropSpaces(_)
DropSpaces(s) ==
  IF s # <<>> /\ IsSpace(Head(s)) THEN DropSpaces(Tail(s)) ELSE s

\* s.replace(/\s+/g, ' ')
RECURSIVE CollapseSpaces(_)
CollapseSpaces(s) ==
  IF s = <<>> THEN <<>>
  ELSE IF IsSpace(Head(s)) THEN <<" ">> \o CollapseSpaces(DropSpaces(s))
  ELSE <<Head(s)>> \o CollapseSpaces(Tail(s))

RECURSIVE DropTrailingSpaces(_)
DropTrailingSpaces(s) ==
  IF s # <<>> /\ IsSpace(s[Len(s)])
    THEN DropTrailingSpaces(SubSeq(s, 1, Len(s) - 1))
    ELSE s

\* String.prototype.trim
Trim(s) == DropTrailingSpaces(DropSpaces(s))

\* String.prototype.includes
Includes(s, sub) ==
  \E i \in 0..(Len(s) - Len(sub)) : SubSeq(s, i + 1, i + Len(sub)) = sub

\* the characters matched by [-_\s]
IsWordSep(c) == c \in {"-", "_"} \/ IsSpace(c)

RECURSIVE DropWordSeps(_)
DropWordSeps(s) ==
  IF s # <<>> /\ IsWordSep(Head(s)) THEN DropWordSeps(Tail(s)) ELSE s

\* s.split(/[-_\s]+/): the pieces between separator runs, empty pieces at
\* the ends included
RECURSIVE SplitAcc(_, _, _)
SplitAcc(s, cur, acc) ==
  IF s = <<>> THEN Append(acc, cur)
  ELSE IF IsWordSep(Head(s))
    THEN SplitAcc(DropWordSeps(s), <<>>, Append(acc, cur))
  ELSE SplitAcc(Tail(s), Append(cur, Head(s)), acc)

SplitWords(s) == SplitAcc(s, <<>>, <<>>)

\* index of the last path separator of s, 0 if there is none
LastIndexOfSep(s, seps) ==
  IF \E i \in 1..Len(s) : s[i] \in seps
    THEN CHOOSE i \in 1..Len(s) :
           s[i] \in seps /\ \A j \in (i + 1)..Len(s) : s[j] \notin seps
    ELSE 0

(* ---------------------------------------------------------------------- *)
(* Identity normalizer and whitelist matcher                               *)
(* ---------------------------------------------------------------------- *)
DotExe == <<".", "e", "x", "e">>
DotApp == <<".", "a", "p", "p">>

normalizeAppName(name) ==
  IF ~Truthy(name) THEN <<>>
  ELSE Trim(CollapseSpaces(
         StripSuffix(StripSuffix(ToLowerCase(name), DotExe), DotApp)))

\* one whitelist entry against the normalized app name: exact, partial in
\* both directions, then word-based
EntryMatches(normalizedAppName, whitelistedApp) ==
  LET normalizedWhitelistedApp == normalizeAppName(whitelistedApp)
      appWords == SplitWords(normalizedAppName)
      whitelistWords == SplitWords(normalizedWhitelistedApp)
  IN  \/ normalizedAppName = normalizedWhitelistedApp
      \/ Includes(normalizedAppName, normalizedWhitelistedApp)
      \/ Includes(normalizedWhitelistedApp, normalizedAppName)
      \/ \E i \in 1..Len(appWords) : \E j \in 1..Len(whitelistWords) :
           \/ Includes(appWords[i], whitelistWords[j])
           \/ Includes(whitelistWords[j], appWords[i])

\* a matcher that demands every entry to match
isAppInWhitelistEvery(appName, wl) ==
  IF ~Truthy(appName) THEN FALSE
  ELSE \A i \in 1..Len(wl) : EntryMatches(normalizeAppName(appName), wl[i])

isAppInWhitelist(appName, wl) ==
  IF ~Truthy(appName) THEN FALSE
  ELSE \E i \in 1..Len(wl) : EntryMatches(normalizeAppName(appName), wl[i])

\* getExecutableName: the text after the last / or \
getExecutableName(path) ==
  IF ~Truthy(path) THEN <<>>
  ELSE SubSeq(path, LastIndexOfSep(path, {"/", "\\"}) + 1, Len(path))

\* getBundleAppName: the last dot-separated segment, the whole id when that
\* segment is empty
getBundleAppName(bundleId) ==
  IF ~Truthy(bundleId) THEN <<>>
  ELSE LET last == SubSeq(bundleId, LastIndexOfSep(bundleId, {"."}) + 1,
                          Len(bundleId))
       IN  IF last # <<>> THEN last ELSE bundleId

\* extractAppFromTitle (main process): the text before the first
\* " - ", " | ", " :", " <digit>" or the end of the title, trimmed; the
\* trimmed title when that text is empty; 'Unknown' without a title
Unknown == <<"U", "n", "k", "n", "o", "w", "n">>

\* the characters U+2013 and U+2014, each one character of a title
EnDash == "u2013"
EmDash == "u2014"

IsDigit(c) == c \in {"0", "1", "2", "3", "4", "5", "6", "7", "8", "9"}

TitleDelimiterAt(title, i) ==
  \/ i = Len(title) + 1
  \/ /\ i + 1 <= Len(title)
     /\ IsSpace(title[i])
     /\ \/ title[i + 1] = ":"
        \/ IsDigit(title[i + 1])
        \/ /\ i + 2 <= Len(title)
           /\ title[i + 1] \in {"-", EnDash, EmDash, "|"}
           /\ IsSpace(title[i + 2])

extractAppFromTitle(title) ==
  IF ~Truthy(title) THEN Unknown
  ELSE LET i == CHOOSE k \in 1..(Len(title) + 1) :
                  /\ TitleDelimiterAt(title, k)
                  /\ \A j \in 1..(k - 1) : ~TitleDelimiterAt(title, j)
           captured == Trim(SubSeq(title, 1, i - 1))
       IN  IF captured # <<>> THEN captured ELSE Trim(title)

\* the windowInfo the sampler sends for a probe result (activeWin value)
BuildWindowInfo(activeWindow) ==
  [ title    |-> activeWindow.title,
    name     |-> IF Truthy(activeWindow.name) THEN activeWindow.name
                 ELSE Unknown,
    path     |-> IF Truthy(activeWindow.path) THEN activeWindow.path
                 ELSE <<>>,
    bundleId |-> IF Truthy(activeWindow.bundleId) THEN activeWindow.bundleId
                 ELSE <<>>,
    appName  |-> IF Truthy(activeWindow.name) THEN activeWindow.name
                 ELSE extractAppFromTitle(activeWindow.title) ]

\* extractAppName: the first truthy candidate, normalized
extractAppName(windowInfo) ==
  LET candidates ==
        << IF Truthy(windowInfo.path)
             THEN getExecutableName(windowInfo.path) ELSE Null,
           IF Truthy(windowInfo.bundleId)
             THEN getBundleAppName(windowInfo.bundleId) ELSE Null,
           windowInfo.name,
           windowInfo.appName,
           windowInfo.title >>
      kept == SelectSeq(candidates, Truthy)
  IN  IF Len(kept) > 0 THEN normalizeAppName(kept[1]) ELSE <<>>

\* the self-exclusion test of the monitor effect
IsOwnApp(activeApp) ==
  LET normalizedCurrentApp == normalizeAppName(activeApp)
  IN  \/ Includes(normalizedCurrentApp, <<"m","i","n","d","f","u","l">>)
      \/ Includes(normalizedCurrentApp, <<"e","l","e","c","t","r","o","n">>)
      \/ Includes(normalizedCurrentApp,
                  <<"d","e","s","k","t","o","p","-",
                    "c","o","m","p","a","n","i","o","n">>)
(* ---------------------------------------------------------------------- *)
(* State                                                                   *)
(* ---------------------------------------------------------------------- *)
VARIABLES
  isFocusMode,       \* React state of FocusModeProvider, as last rendered
  whitelist,
  currentActiveApp,
  lastNotifiedApp,
  showingAlert,
  currentAlertApp,
  dimInsteadOfBlock,
  pending,           \* effects of the last render that have not run yet
  heardAlertApp,     \* <<currentAlertApp>> as captured by the registered
                     \* event listeners, <<>> while none is registered
  store,             \* localStorage: the user's whitelist, dim option and
                     \* enabled keys; garbled: the text under the whitelist
                     \* key is not JSON; denied: access to localStorage throws
  timers,            \* pending setTimeout callbacks, in arming order
  alerts,            \* mounted FocusModeAlert instances
  raises,            \* handleNonWhitelistedApp calls of the last step
  toggleDim,         \* dimInsteadOfBlock as the memoized toggleFocusMode and
  removeDim,         \* removeFromWhitelist see it in handleNonWhitelistedApp
  overlays,          \* the dim overlay elements of the document, in order
  dimCalls,          \* applyDimEffect calls of the last step
  hasElectron,       \* window.electron is defined: the page runs in the
                     \* Electron window, not in a browser
  pureIn,            \* inputs and results of the pure functions
  pureOut,
  lastProcessedNotificationId,  \* main process: id it processed last
  ipc,               \* messages sent to the main process, not yet handled
  handled,           \* messages the main process has handled, in order
  shown,             \* ids the focus popup presented, in order
  notified,          \* ids the notification window presented, in order
  sampler,           \* main process: activeWindowInterval (armed or not),
                     \* isMonitoring, isAppQuitting, lastActiveWindow (<<>>
                     \* for null) and lastActiveWindowTime
  now,               \* Date.now(), in periods of the sampling interval
  probes,            \* calls of activeWin() that have not settled, by the
                     \* time of their start
  sent,              \* 'active-window-changed' messages sent, in order
  probeLog,          \* how the settled probes ended, in order
  windows            \* main process: focusPopupWindow and notificationWindow,
                     \* each "hidden" (created), "shown" or "closed"

reactVars == <<isFocusMode, whitelist, currentActiveApp, lastNotifiedApp,
               showingAlert, currentAlertApp, dimInsteadOfBlock>>
rendererVars == <<reactVars, pending, heardAlertApp, store, timers, alerts,
                  raises, toggleDim, removeDim, overlays, dimCalls,
                  hasElectron>>
pureVars == <<pureIn, pureOut>>
mainVars == <<lastProcessedNotificationId, ipc, handled, shown, notified,
              sampler, now, probes, sent, probeLog, windows>>
vars == <<rendererVars, pureVars, mainVars>>

(* ---------------------------------------------------------------------- *)
(* Inputs                                                                  *)
(* ---------------------------------------------------------------------- *)
\* pending timer callbacks at a time
MaxTimers == 1

\* messages the main process receives in one run
MaxMessages == 3

SlackName == <<"S", "l", "a", "c", "k">>
SlackPath == <<"/", "A", "p", "p", "s", "/", "S", "l", "a", "c", "k",
               ".", "e", "x", "e">>
slack == <<"s", "l", "a", "c", "k">>
sla == <<"s", "l", "a">>
electron == <<"e", "l", "e", "c", "t", "r", "o", "n">>
ElectronPath == <<"/", "o", "p", "t", "/", "e", "l", "e", "c", "t", "r",
                  "o", "n">>

\* probe results of the sampler: Slack and the agent's own window
ActiveWindows ==
  { [title |-> <<"g">>, name |-> SlackName, path |-> SlackPath,
     bundleId |-> Null],
    [title |-> <<"m">>, name |-> Null, path |-> ElectronPath,
     bundleId |-> Null] }

\* a helper process of Slack: its probe result carries the owner name only
helper == <<"h", "e", "l", "p", "e", "r">>
SlackHelper ==
  [title |-> <<"g">>, name |-> SlackName \o <<" ", "H">> \o Tail(helper),
   path |-> Null, bundleId |-> Null]

MatchWindows == ActiveWindows \cup {SlackHelper}

\* names the user adds to the whitelist, typed into the form or taken from
\* the foreground app while Slack is in front
UserNames == {sla, slack}

\* longest whitelist kept in memory or in the store
MaxWl == 1

\* the app identities the samples yield
SampleApp == [w \in MatchWindows |-> extractAppName(BuildWindowInfo(w))]

\* what a previous session left under the whitelist key (<<>>: no item)
StoredWhitelists == {<<>>, << <<sla>> >>}
StoredEnabled == {"none", "true"}

\* every string that can become a whitelist entry or an app identity here
KnownNames ==
  UserNames \cup {helper} \cup {SampleApp[w] : w \in MatchWindows}
    \cup UNION {{l[1][i] : i \in 1..Len(l[1])} :
                  l \in {x \in StoredWhitelists : Len(x) > 0}}

RECURSIVE ListsUpTo(_)
ListsUpTo(n) ==
  IF n = 0 THEN {<<>>}
  ELSE ListsUpTo(n - 1) \cup
       {Append(l, x) : l \in {m \in ListsUpTo(n - 1) : Len(m) = n - 1},
                       x \in KnownNames}

KnownWhitelists == ListsUpTo(MaxWl + 1)

\* normalizeAppName and isAppInWhitelist tabulated over these strings
NormalizedName ==
  [n \in KnownNames \cup {<<>>, Null} |-> normalizeAppName(n)] @@ <<>>

AllowedTable ==
  [p \in (KnownNames \cup {<<>>, Null}) \X KnownWhitelists |->
     isAppInWhitelist(p[1], p[2])] @@ <<>>

OwnAppTable == [n \in KnownNames |-> IsOwnApp(n)] @@ <<>>

Normalized(name) == NormalizedName[name]
Allowed(appName, wl) == AllowedTable[<<appName, wl>>]

(* ---------------------------------------------------------------------- *)
(* React state updates                                                     *)
(* ---------------------------------------------------------------------- *)
Fields == {"isFocusMode", "whitelist", "currentActiveApp",
           "lastNotifiedApp", "showingAlert", "currentAlertApp",
           "dimInsteadOfBlock"}

\* the state of the last render
Cur == [isFocusMode |-> isFocusMode, whitelist |-> whitelist,
        currentActiveApp |-> currentActiveApp,
        lastNotifiedApp |-> lastNotifiedApp,
        showingAlert |-> showingAlert, currentAlertApp |-> currentAlertApp,
        dimInsteadOfBlock |-> dimInsteadOfBlock]

\* a batch of setState calls: <<>> leaves a field alone, <<v>> sets it;
\* the whitelist takes <<"set", list>>, <<"append", x>> or <<"filter", x>>,
\* dimInsteadOfBlock takes <<"set", b>> or <<"flip">>
NoUpdate == [f \in Fields |-> <<>>]

Pick(old, u) == IF Len(u) = 0 THEN old ELSE u[1]

ApplyWhitelist(wl, op) ==
  IF Len(op) = 0 THEN wl
  ELSE IF op[1] = "set" THEN op[2]
  ELSE IF op[1] = "append" THEN Append(wl, op[2])
  ELSE SelectSeq(wl, LAMBDA item : item # op[2])

ApplyDim(dim, op) ==
  IF Len(op) = 0 THEN dim
  ELSE IF op[1] = "set" THEN op[2]
  ELSE ~dim

Apply(r, u) ==
  [isFocusMode |-> Pick(r.isFocusMode, u.isFocusMode),
   whitelist |-> ApplyWhitelist(r.whitelist, u.whitelist),
   currentActiveApp |-> Pick(r.currentActiveApp, u.currentActiveApp),
   lastNotifiedApp |-> Pick(r.lastNotifiedApp, u.lastNotifiedApp),
   showingAlert |-> Pick(r.showingAlert, u.showingAlert),
   currentAlertApp |-> Pick(r.currentAlertApp, u.currentAlertApp),
   dimInsteadOfBlock |-> ApplyDim(r.dimInsteadOfBlock, u.dimInsteadOfBlock)]

\* the dependencies that differ between two renders: values for the
\* primitive states, identity for the whitelist array (every setWhitelist
\* call produces a new array)
Changed(r0, r1, u1, u2) ==
  {f \in Fields \ {"whitelist"} : r0[f] # r1[f]}
    \cup (IF Len(u1.whitelist) > 0 \/ Len(u2.whitelist) > 0
            THEN {"whitelist"} ELSE {})
(* ---------------------------------------------------------------------- *)
(* Callbacks and effects of FocusModeProvider                              *)
(* ---------------------------------------------------------------------- *)
\* handleNonWhitelistedApp: the state it sets
handleNonWhitelistedApp(appName) ==
  [NoUpdate EXCEPT !.currentAlertApp = <<appName>>,
                   !.showingAlert = <<TRUE>>]

\* the body of a delayed raise: handleNonWhitelistedApp(app);
\* setLastNotifiedApp(app)
RaiseAndNotify(appName) ==
  [handleNonWhitelistedApp(appName) EXCEPT !.lastNotifiedApp = <<appName>>]

\* setShowingAlert(false); setCurrentAlertApp(null)
ClearAlert(u) ==
  [u EXCEPT !.showingAlert = <<FALSE>>, !.currentAlertApp = <<Null>>]

\* a dismissal that hides the alert and keeps its app
handleAlertDismissKeepsApp == [NoUpdate EXCEPT !.showingAlert = <<FALSE>>]

handleAlertDismiss == ClearAlert(NoUpdate)

\* the load effect: what it reads from localStorage and sets. A text that
\* JSON.parse rejects sets the whitelist to [] and leaves the dim option
\* alone; an access that throws ends the effect at its first read.
LoadEffect(st) ==
  IF st.denied THEN NoUpdate
  ELSE
  [NoUpdate EXCEPT
     !.whitelist = IF Len(st.whitelist) > 0
                     THEN <<"set", IF st.garbled THEN <<>>
                                   ELSE st.whitelist[1]>>
                     ELSE <<>>,
     !.dimInsteadOfBlock = IF st.dim \in {"true", "false"}
                             THEN <<"set", st.dim = "true">> ELSE <<>>,
     !.isFocusMode = IF st.enabled = "true" THEN <<TRUE>> ELSE <<>>]

\* a monitor effect that does not compare with lastNotifiedApp
MonitorDecisionNoDedup(r) ==
  IF ~r.isFocusMode \/ ~Truthy(r.currentActiveApp) THEN "none"
  ELSE IF OwnAppTable[r.currentActiveApp] THEN "none"
  ELSE LET isWhitelisted ==
             Allowed(r.currentActiveApp, r.whitelist)
       IN  IF ~isWhitelisted THEN "raise"
           ELSE IF /\ isWhitelisted
                   /\ r.showingAlert
                   /\ r.currentAlertApp = r.currentActiveApp
             THEN "clear"
           ELSE "none"

\* a monitor effect that does not return while focus mode is off
MonitorDecisionWhileDisabled(r) ==
  IF ~Truthy(r.currentActiveApp) THEN "none"
  ELSE IF OwnAppTable[r.currentActiveApp] THEN "none"
  ELSE LET isWhitelisted ==
             Allowed(r.currentActiveApp, r.whitelist)
       IN  IF ~isWhitelisted /\ r.currentActiveApp # r.lastNotifiedApp
             THEN "raise"
           ELSE IF /\ isWhitelisted
                   /\ r.showingAlert
                   /\ r.currentAlertApp = r.currentActiveApp
             THEN "clear"
           ELSE "none"

\* the monitor effect: "raise", "clear" or "none" for a rendered state
MonitorDecision(r) ==
  IF ~r.isFocusMode \/ ~Truthy(r.currentActiveApp) THEN "none"
  ELSE IF OwnAppTable[r.currentActiveApp] THEN "none"
  ELSE LET isWhitelisted ==
             Allowed(r.currentActiveApp, r.whitelist)
       IN  IF ~isWhitelisted /\ r.currentActiveApp # r.lastNotifiedApp
             THEN "raise"
           ELSE IF /\ isWhitelisted
                   /\ r.showingAlert
                   /\ r.currentAlertApp = r.currentActiveApp
             THEN "clear"
           ELSE "none"

MonitorEffect(r) ==
  IF MonitorDecision(r) = "raise" THEN RaiseAndNotify(r.currentActiveApp)
  ELSE IF MonitorDecision(r) = "clear" THEN ClearAlert(NoUpdate)
  ELSE NoUpdate

\* the dependency arrays of the effects (userId never changes)
EffectDeps ==
  [ load          |-> {"currentAlertApp", "whitelist"},
    saveWhitelist |-> {"whitelist"},
    saveDim       |-> {"dimInsteadOfBlock"},
    saveEnabled   |-> {"isFocusMode"},
    monitor       |-> {"isFocusMode", "currentActiveApp", "whitelist",
                       "lastNotifiedApp", "showingAlert", "currentAlertApp"} ]

AllEffects == DOMAIN EffectDeps

\* the effects React schedules after a render in which `changed` differ
Scheduled(changed) == {e \in AllEffects : EffectDeps[e] \cap changed # {}}

\* one pass of the effects in p, in declaration order, over the rendered
\* state r and the store st: the load effect reads the store before the save
\* effects of the same pass write it. While the access to localStorage
\* throws, the load effect ends before it registers its listeners and the
\* save effects catch the exception of their write.
Effects(r, p, st, heard) ==
  LET load == IF "load" \in p THEN LoadEffect(st) ELSE NoUpdate
      mon == IF "monitor" \in p THEN MonitorEffect(r) ELSE NoUpdate
  IN  [ upd |-> [mon EXCEPT !.whitelist = load.whitelist,
                            !.dimInsteadOfBlock = load.dimInsteadOfBlock,
                            !.isFocusMode = load.isFocusMode],
        store |->
          IF st.denied THEN st
          ELSE
          [whitelist |-> IF "saveWhitelist" \in p
                           THEN <<r.whitelist>> ELSE st.whitelist,
           garbled |-> IF "saveWhitelist" \in p THEN FALSE ELSE st.garbled,
           dim |-> IF "saveDim" \in p
                     THEN (IF r.dimInsteadOfBlock THEN "true" ELSE "false")
                     ELSE st.dim,
           enabled |-> IF "saveEnabled" \in p
                         THEN (IF r.isFocusMode THEN "true" ELSE "false")
                         ELSE st.enabled,
           denied |-> FALSE],
        heard |-> IF "load" \in p /\ ~st.denied
                    THEN <<r.currentAlertApp>> ELSE heard,
        raised |-> IF "monitor" \in p /\ MonitorDecision(r) = "raise"
                     THEN {[app |-> r.currentActiveApp, by |-> "effect"]}
                     ELSE {} ]

\* a render that mounts a further instance next to the mounted one
ReconcileRemount(mounted, r) ==
  IF r.showingAlert /\ Truthy(r.currentAlertApp)
    THEN mounted \cup {[appName |-> r.currentAlertApp,
                        isVisible |-> TRUE, auto |-> TRUE]}
    ELSE {}

\* the FocusModeAlert instances after a render: one while showingAlert and
\* currentAlertApp are truthy, the mounted instance kept with its new prop
Reconcile(mounted, r) ==
  IF r.showingAlert /\ Truthy(r.currentAlertApp)
    THEN IF mounted = {}
           THEN {[appName |-> r.currentAlertApp,
                  isVisible |-> TRUE, auto |-> TRUE]}
           ELSE {[a EXCEPT !.appName = r.currentAlertApp] : a \in mounted}
    ELSE {}

\* handleDismiss of the alert component, by a click or by the 8 s timer
HideAlert(mounted, how) ==
  IF how = "click" THEN {[a EXCEPT !.isVisible = FALSE] : a \in mounted}
  ELSE IF how = "auto"
    THEN {[a EXCEPT !.isVisible = FALSE, !.auto = FALSE] : a \in mounted}
  ELSE mounted

\* applyDimEffect: nothing while an element with the overlay's id exists,
\* else a new overlay, visible, with its 3 s timer
\* an applyDimEffect that does not look for an existing overlay
applyDimEffectAlways(ov) == Append(ov, "visible")

\* an applyDimEffect that shows the existing overlay anew
applyDimEffectRestart(ov) == <<"visible">>

applyDimEffect(ov) == IF ov # <<>> THEN ov ELSE Append(ov, "visible")

RECURSIVE ApplyDimTimes(_, _)
ApplyDimTimes(ov, n) ==
  IF n = 0 THEN ov ELSE ApplyDimTimes(applyDimEffect(ov), n - 1)

\* the state the memoized callbacks depend on: they are created anew, with
\* the handleNonWhitelistedApp of that render, when one of these changes
ToggleDeps == {"isFocusMode", "currentActiveApp", "whitelist"}
RemoveDeps == {"isFocusMode", "currentActiveApp"}

\* the notificationId of handleNonWhitelistedApp,
\* `focus-mode-${appName}-${Date.now()}`, and that of the alert component,
\* `focus-alert-${appName}-${Date.now()}-${random}`, as the main process
\* sees them
FocusModeId(appName) ==
  IF appName = slack THEN "focus-mode-slack-1" ELSE "focus-mode-app-1"

FocusAlertId(appName) ==
  IF appName = slack THEN "focus-alert-slack-1" ELSE "focus-alert-app-1"

\* the 'show-focus-popup' messages of a step: one of each
\* handleNonWhitelistedApp call, in the order of the calls, then one of the
\* popup effect of an alert component that mounts. The other channels the
\* renderer sends on ('stabilize-window', 'toggle-focus-mode',
\* 'get-active-window') reach no code that touches the popup windows.
PopupRequests(first, second, mounted, r) ==
  LET ofRaises(rs) ==
        IF rs = {} THEN <<>>
        ELSE << [channel |-> "show-focus-popup",
                 id |-> FocusModeId((CHOOSE x \in rs : TRUE).app)] >>
  IN  ofRaises(first) \o ofRaises(second) \o
      (IF mounted = {} /\ Reconcile(mounted, r) # {}
         THEN << [channel |-> "show-focus-popup",
                  id |-> FocusAlertId(r.currentAlertApp)] >>
         ELSE <<>>)

\* One task of the renderer. The effects still pending from the last render
\* run over that render's state, either after the handler has queued its
\* updates uH or before it (the handler sees the last render's state in both
\* cases); the queued updates are applied in that order in one batch and the
\* result is rendered. hDim tells whether the handler's own raise calls
\* applyDimEffect; the raise of the monitor effect does when the last render
\* has dimInsteadOfBlock.
MergeOrders == {"handler first", "effects first"}

Step(uH, hRaises, hDim, newTimers, how) ==
  \E order \in MergeOrders :
  \E e \in {Effects(Cur, pending, store, heardAlertApp)} :
  \E r1 \in {IF order = "handler first" THEN Apply(Apply(Cur, uH), e.upd)
             ELSE Apply(Apply(Cur, e.upd), uH)} :
  \E changed \in {Changed(Cur, r1, uH, e.upd)} :
  \E calls \in {(IF hDim THEN 1 ELSE 0) +
                (IF e.raised # {} /\ dimInsteadOfBlock THEN 1 ELSE 0)} :
  \E requests \in {IF ~hasElectron THEN <<>>
                   ELSE IF order = "handler first"
                     THEN PopupRequests(hRaises, e.raised, alerts, r1)
                   ELSE PopupRequests(e.raised, hRaises, alerts, r1)} :
    /\ Len(ipc) + Len(handled) + Len(requests) <= MaxMessages
    /\ isFocusMode' = r1.isFocusMode
    /\ whitelist' = r1.whitelist
    /\ currentActiveApp' = r1.currentActiveApp
    /\ lastNotifiedApp' = r1.lastNotifiedApp
    /\ showingAlert' = r1.showingAlert
    /\ currentAlertApp' = r1.currentAlertApp
    /\ dimInsteadOfBlock' = r1.dimInsteadOfBlock
    /\ pending' = Scheduled(changed)
    /\ heardAlertApp' = e.heard
    /\ store' = e.store
    /\ timers' = newTimers
    /\ alerts' = HideAlert(Reconcile(alerts, r1), how)
    /\ raises' = hRaises \cup e.raised
    /\ toggleDim' = IF ToggleDeps \cap changed # {}
                      THEN r1.dimInsteadOfBlock ELSE toggleDim
    /\ removeDim' = IF RemoveDeps \cap changed # {}
                      THEN r1.dimInsteadOfBlock ELSE removeDim
    /\ dimCalls' = calls
    /\ overlays' = ApplyDimTimes(overlays, calls)
    /\ ipc' = ipc \o requests
    /\ UNCHANGED <<hasElectron, pureVars, lastProcessedNotificationId,
                   handled, shown, notified, sampler, now, probes, sent,
                   probeLog, windows>>

\* the updates the effects pending from the last render queue when they run
PendingUpd == Effects(Cur, pending, store, heardAlertApp).upd

\* the listeners and callbacks of the provider exist once its effects ran
Mounted == heardAlertApp # <<>>

\* a pending setTimeout callback. It closes over the state of the render in
\* which it was armed, so what it tests on that state is fixed when it is
\* armed: clear (the add callback clears the alert), raiseApp (the app the
\* remove callback arms a raise for, Null for none) and dim (whether the
\* handleNonWhitelistedApp it holds calls applyDimEffect)
Timer(kind, delay, app, clear, raiseApp, dim) ==
  [kind |-> kind, delay |-> delay, app |-> app, clear |-> clear,
   raiseApp |-> raiseApp, dim |-> dim]

\* a timer fires after every timer armed before it with no longer a delay
CanFire(i) == \A j \in 1..(i - 1) : timers[j].delay > timers[i].delay

Without(i) == SubSeq(timers, 1, i - 1) \o SubSeq(timers, i + 1, Len(timers))
(* ---------------------------------------------------------------------- *)
(* Operations of the renderer                                              *)
(* ---------------------------------------------------------------------- *)
Elems(seq) == {seq[i] : i \in 1..Len(seq)}

\* a step that renders nothing: only a timer is armed, while fewer than
\* maxTimers are pending
ArmOnlyWithin(t, maxTimers) ==
  /\ Len(timers) < maxTimers
  /\ timers' = Append(timers, t)
  /\ raises' = {}
  /\ dimCalls' = 0
  /\ UNCHANGED <<reactVars, pending, heardAlertApp, store, alerts, toggleDim,
               removeDim, overlays, hasElectron, pureVars, mainVars>>

ArmOnly(t) == ArmOnlyWithin(t, MaxTimers)

\* React runs the effects of the last render
Commit ==
  /\ pending # {}
  /\ Step(NoUpdate, {}, FALSE, timers, "none")

\* handleActiveWindowChanged for the windowInfo of probe result w
handleActiveWindowChanged(w) ==
  [NoUpdate EXCEPT !.currentActiveApp = <<SampleApp[w]>>]

WindowChanged(w) ==
  /\ Mounted
  /\ Step(handleActiveWindowChanged(w), {}, FALSE, timers, "none")

\* a toggleFocusMode that leaves lastNotifiedApp alone
toggleFocusModeKeepsNotified(r) ==
  LET newState == ~r.isFocusMode
      base == [NoUpdate EXCEPT !.isFocusMode = <<newState>>]
  IN  IF newState THEN base ELSE ClearAlert(base)

\* toggleFocusMode: the state it sets, and whether it arms the 500 ms raise
toggleFocusMode(r) ==
  LET newState == ~r.isFocusMode
      base == [NoUpdate EXCEPT !.isFocusMode = <<newState>>,
                               !.lastNotifiedApp = <<Null>>]
  IN  IF newState THEN base ELSE ClearAlert(base)

toggleArmsRaise(r) ==
  /\ ~r.isFocusMode
  /\ Truthy(r.currentActiveApp)
  /\ ~Allowed(r.currentActiveApp, r.whitelist)

Toggle ==
  /\ Mounted
  /\ toggleArmsRaise(Cur) => Len(timers) < MaxTimers
  /\ Step(toggleFocusMode(Cur), {}, FALSE,
          IF toggleArmsRaise(Cur)
            THEN Append(timers, Timer("raise", 500, currentActiveApp,
                                      FALSE, Null, toggleDim))
            ELSE timers,
          "none")

Enable == ~isFocusMode /\ Toggle

Disable == isFocusMode /\ Toggle

\* addToWhitelist: the guard of the call, and the body of its 0 ms callback
addToWhitelistGuard(app, r) ==
  app \notin Elems(r.whitelist) /\ Trim(app) # <<>>

PendingAdds == Len(SelectSeq(timers, LAMBDA t : t.kind = "add"))

StoredLen == IF Len(store.whitelist) > 0 THEN Len(store.whitelist[1]) ELSE 0

LongestWl == IF Len(whitelist) > StoredLen THEN Len(whitelist) ELSE StoredLen

addClears(app, r) ==
  \/ r.currentAlertApp = app
  \/ /\ Truthy(r.currentActiveApp)
     /\ Normalized(r.currentActiveApp) = Normalized(app)

\* the call of addToWhitelist, explored while the lists stay within maxWl
\* entries and the pending timers within maxTimers
AddToWhitelistWithin(app, maxWl, maxTimers) ==
  /\ Mounted
  /\ LongestWl + PendingAdds < maxWl
  /\ addToWhitelistGuard(app, Cur)
  /\ ArmOnlyWithin(Timer("add", 0, app, addClears(app, Cur), Null, FALSE),
                   maxTimers)

AddToWhitelist(app) == AddToWhitelistWithin(app, MaxWl, MaxTimers)

addCallback(t) ==
  LET base == [NoUpdate EXCEPT !.whitelist = <<"append", t.app>>]
  IN  IF t.clear
        THEN [ClearAlert(base) EXCEPT !.lastNotifiedApp = <<Null>>]
        ELSE base

AddFire(i) ==
  /\ timers[i].kind = "add"
  /\ CanFire(i)
  /\ Step(addCallback(timers[i]), {}, FALSE, Without(i), "none")

\* removeFromWhitelist: the body of its 0 ms callback and whether that arms
\* the 100 ms raise
removeArmsRaise(app, r) ==
  /\ r.isFocusMode
  /\ Truthy(r.currentActiveApp)
  /\ Normalized(r.currentActiveApp) = Normalized(app)

RemoveFromWhitelist(app) ==
  /\ Mounted
  /\ ArmOnly(Timer("remove", 0, app, FALSE,
                   IF removeArmsRaise(app, Cur) THEN currentActiveApp
                   ELSE Null,
                   removeDim))

removeCallback(t) == [NoUpdate EXCEPT !.whitelist = <<"filter", t.app>>]

RemoveFire(i) ==
  /\ timers[i].kind = "remove"
  /\ CanFire(i)
  /\ Step(removeCallback(timers[i]), {}, FALSE,
          IF Truthy(timers[i].raiseApp)
            THEN Append(Without(i), Timer("raise", 100, timers[i].raiseApp,
                                          FALSE, Null, timers[i].dim))
            ELSE Without(i),
          "none")

\* the delayed raise armed by toggleFocusMode or removeFromWhitelist
RaiseFire(i) ==
  /\ timers[i].kind = "raise"
  /\ CanFire(i)
  /\ Step(RaiseAndNotify(timers[i].app),
          {[app |-> timers[i].app, by |-> "timer"]}, timers[i].dim,
          Without(i), "none")

\* the 300 ms timer of handleDismiss; app is the appName of the alert whose
\* handleDismiss arms it (the callback does not read it)
DismissTimer == Timer("dismiss", 300, currentAlertApp, FALSE, Null, FALSE)

\* the user clicks a dismiss button of the alert component
AlertClick ==
  /\ \E a \in alerts : a.isVisible
  /\ Len(timers) < MaxTimers
  /\ Step(NoUpdate, {}, FALSE, Append(timers, DismissTimer), "click")

\* the 8 s timer of the alert component fires
AutoDismiss ==
  /\ \E a \in alerts : a.auto
  /\ Len(timers) < MaxTimers
  /\ Step(NoUpdate, {}, FALSE, Append(timers, DismissTimer), "auto")

\* the 300 ms timer of handleDismiss calls onDismiss
DismissFire(i) ==
  /\ timers[i].kind = "dismiss"
  /\ CanFire(i)
  /\ Step(handleAlertDismiss, {}, FALSE, Without(i), "none")

\* handleNotificationDismissed, with the currentAlertApp its listener holds
handleNotificationDismissed(detail, heard) ==
  IF Truthy(heard[1]) /\ Includes(detail, heard[1])
    THEN ClearAlert(NoUpdate) ELSE NoUpdate

\* the notificationId handleNonWhitelistedApp makes up for a request for
\* appName: `focus-mode-${appName}-${Date.now()}`, shortened
RequestId(appName) == <<"f", "-">> \o appName \o <<"-", "1">>

\* ids of notifications whose dismissal the main process reports
DismissedIds == { <<"f", "-">> \o slack \o <<"-", "1">>,
                  <<"e", "y", "e", "-", "1">> }

NotificationDismissed(detail) ==
  /\ Mounted
  /\ Step(handleNotificationDismissed(detail, heardAlertApp), {}, FALSE,
          timers, "none")

\* toggleDimOption: setDimInsteadOfBlock(prev => !prev)
toggleDimOption == [NoUpdate EXCEPT !.dimInsteadOfBlock = <<"flip">>]

ToggleDimOption ==
  /\ Mounted
  /\ Step(toggleDimOption, {}, FALSE, timers, "none")

\* a timer of the overlay leaves everything of the provider alone
OverlayTimer ==
  /\ raises' = {}
  /\ dimCalls' = 0
  /\ UNCHANGED <<reactVars, pending, heardAlertApp, store, timers, alerts,
                 toggleDim, removeDim, hasElectron, pureVars, mainVars>>

\* the 3 s timer of overlay i: if it is still in the document, fade it out
\* and arm the 0.5 s timer
OverlayFade(i) ==
  /\ overlays[i] = "visible"
  /\ overlays' = [overlays EXCEPT ![i] = "fading"]
  /\ OverlayTimer

\* the 0.5 s timer of overlay i: if it is still in the document, remove it
OverlayRemove(i) ==
  /\ overlays[i] = "fading"
  /\ overlays' = SubSeq(overlays, 1, i - 1) \o
                   SubSeq(overlays, i + 1, Len(overlays))
  /\ OverlayTimer

(* ---------------------------------------------------------------------- *)
(* The renderer                                                            *)
(* ---------------------------------------------------------------------- *)
InitRenderer ==
  /\ isFocusMode = FALSE
  /\ whitelist = <<>>
  /\ currentActiveApp = Null
  /\ lastNotifiedApp = Null
  /\ showingAlert = FALSE
  /\ currentAlertApp = Null
  /\ dimInsteadOfBlock = TRUE
  /\ toggleDim = TRUE
  /\ removeDim = TRUE
  /\ overlays = <<>>
  /\ dimCalls = 0
  /\ pending = AllEffects
  /\ heardAlertApp = <<>>
  /\ timers = <<>>
  /\ alerts = {}
  /\ raises = {}

\* the module-level state of the main process
InitMain ==
  /\ lastProcessedNotificationId = NoId
  /\ ipc = <<>>
  /\ handled = <<>>
  /\ shown = <<>>
  /\ notified = <<>>
  /\ sampler = [activeWindowInterval |-> TRUE, isMonitoring |-> TRUE,
                isAppQuitting |-> FALSE, lastActiveWindow |-> <<>>,
                lastActiveWindowTime |-> 0]
  /\ now = 0
  /\ probes = <<>>
  /\ sent = <<>>
  /\ probeLog = <<>>
  /\ windows = [focusPopupWindow |-> "hidden", notificationWindow |-> "hidden"]

Init ==
  /\ InitRenderer
  /\ hasElectron = FALSE
  /\ InitMain
  /\ store \in [whitelist : StoredWhitelists, garbled : {FALSE},
                 enabled : StoredEnabled, dim : {"none"}, denied : {FALSE}]
  /\ pureIn = [fn |-> "none"]
  /\ pureOut = <<>>

Next ==
  \/ Commit
  \/ \E w \in ActiveWindows : WindowChanged(w)
  \/ Enable
  \/ Disable
  \/ \E app \in UserNames : AddToWhitelist(app)
  \/ \E app \in Elems(whitelist) : RemoveFromWhitelist(app)
  \/ \E i \in 1..Len(timers) : AddFire(i)
  \/ \E i \in 1..Len(timers) : RemoveFire(i)
  \/ \E i \in 1..Len(timers) : RaiseFire(i)
  \/ AlertClick
  \/ AutoDismiss
  \/ \E i \in 1..Len(timers) : DismissFire(i)
  \/ \E detail \in DismissedIds : NotificationDismissed(detail)

Spec == Init /\ [][Next]_vars

(* ---------------------------------------------------------------------- *)
(* The dim option and the overlay                                          *)
(* ---------------------------------------------------------------------- *)
\* Nothing of the provider reads the overlay, so its timers and the dim
\* option are explored here, with the operations that raise alerts, over an
\* empty whitelist.
\* what a previous session left under the dim option key
StoredDim == {"none", "false"}

InitDim ==
  /\ InitRenderer
  /\ hasElectron = FALSE
  /\ InitMain
  /\ store \in [whitelist : {<<>>}, garbled : {FALSE}, enabled : {"none"},
                 dim : StoredDim, denied : {FALSE}]
  /\ pureIn = [fn |-> "none"]
  /\ pureOut = <<>>

NextDim ==
  \/ Commit
  \/ \E w \in ActiveWindows : WindowChanged(w)
  \/ Enable
  \/ Disable
  \/ \E i \in 1..Len(timers) : RaiseFire(i)
  \/ ToggleDimOption
  \/ \E i \in 1..Len(overlays) : OverlayFade(i)
  \/ \E i \in 1..Len(overlays) : OverlayRemove(i)

SpecDim == InitDim /\ [][NextDim]_vars

\* the timers of the overlay fire once they are due
SpecDimLive ==
  /\ SpecDim
  /\ WF_vars(\E i \in 1..Len(overlays) : OverlayFade(i))
  /\ WF_vars(\E i \in 1..Len(overlays) : OverlayRemove(i))

(* ---------------------------------------------------------------------- *)
(* Edits of the whitelist                                                  *)
(* ---------------------------------------------------------------------- *)
\* the edits of the whitelist and their callbacks, with room for one more
\* entry and one more pending callback than in Spec, while Slack is or comes
\* to the foreground and focus mode is switched on
NextAdd ==
  \/ Commit
  \/ \E w \in ActiveWindows : WindowChanged(w)
  \/ Enable
  \/ \E app \in UserNames :
       AddToWhitelistWithin(app, MaxWl + 1, MaxTimers + 1)
  \/ \E app \in Elems(whitelist) : RemoveFromWhitelist(app)
  \/ \E i \in 1..Len(timers) : AddFire(i)
  \/ \E i \in 1..Len(timers) : RemoveFire(i)
  \/ \E i \in 1..Len(timers) : RaiseFire(i)

SpecAdd == Init /\ [][NextAdd]_vars

\* the same edits in a first session, with nothing under the whitelist key
SpecAddFresh == InitDim /\ [][NextAdd]_vars

\* C38: every raise of a step is for an app that the whitelist, as rendered
\* when the step begins, does not allow
C38_RaiseOnlyDisallowed ==
  [][ \A x \in raises' : ~Allowed(x.app, whitelist) ]_vars

\* C22: no string stands twice in the whitelist, whatever the interleaving of
\* the calls of addToWhitelist and their callbacks
C22_NoDuplicates ==
  \A i, j \in 1..Len(whitelist) : i # j => whitelist[i] # whitelist[j]

\* C26: when the callback of RemoveFromWhitelist arms its raise, the
\* foreground app is a violation under the whitelist as it is after the
\* removal: focus mode is on and the app is not allowed (in the steps in
\* which the whitelist becomes the rendered one without the removed entry)
C26_RemoveRaisesOnlyViolation ==
  [][ \A i \in 1..Len(timers) :
        ( /\ timers[i].kind = "remove"
          /\ Truthy(timers[i].raiseApp)
          /\ whitelist' = ApplyWhitelist(whitelist,
                                         <<"filter", timers[i].app>>)
          /\ RemoveFire(i) )
        => /\ isFocusMode'
           /\ Truthy(currentActiveApp')
           /\ ~Allowed(currentActiveApp', whitelist') ]_vars

(* ---------------------------------------------------------------------- *)
(* An alert for an app whose name is part of the foreground app's name     *)
(* ---------------------------------------------------------------------- *)
\* a previous session left the whitelist ["helper"] and focus mode on; Slack
\* and its helper process come to the foreground
InitMatch ==
  /\ InitRenderer
  /\ hasElectron = FALSE
  /\ InitMain
  /\ store = [whitelist |-> << <<helper>> >>, garbled |-> FALSE,
              enabled |-> "true", dim |-> "none", denied |-> FALSE]
  /\ pureIn = [fn |-> "none"]
  /\ pureOut = <<>>

NextMatch ==
  \/ Commit
  \/ \E w \in MatchWindows : WindowChanged(w)
  \/ Enable
  \/ Disable
  \/ \E i \in 1..Len(timers) : RaiseFire(i)
  \/ \E w \in MatchWindows : NotificationDismissed(RequestId(SampleApp[w]))

SpecMatch == InitMatch /\ [][NextMatch]_vars

\* C25: while focus mode is on, when the monitor effect runs for a foreground
\* app that is allowed and whose name is, or contains, the name of the
\* alert's app, the alert is cleared
C25_AllowedClearsAlert ==
  [][ ( /\ Commit
        /\ "monitor" \in pending
        /\ isFocusMode
        /\ Truthy(currentActiveApp)
        /\ ~OwnAppTable[currentActiveApp]
        /\ Allowed(currentActiveApp, whitelist)
        /\ showingAlert
        /\ Truthy(currentAlertApp)
        /\ Includes(currentActiveApp, currentAlertApp) )
      => /\ ~showingAlert'
         /\ currentAlertApp' = Null ]_vars

\* C40: when the monitor effect has run over a rendered state with focus
\* mode on, an allowed app in the foreground and the alert of another app
\* showing, no alert is active
C40_NoAlertWhileCompliant ==
  [][ ( /\ isFocusMode
        /\ "monitor" \in pending
        /\ Truthy(currentActiveApp)
        /\ ~OwnAppTable[currentActiveApp]
        /\ Allowed(currentActiveApp, whitelist)
        /\ showingAlert
        /\ currentAlertApp # currentActiveApp
        /\ PendingUpd.isFocusMode = <<>>
        /\ Commit )
      => ~showingAlert' ]_vars

\* C30: the dismissal of a notification whose id is not the id of a request
\* for the alert's app leaves the alert active (no pending effect sets the
\* alert in the same batch)
C30_StaleDismissalIgnored ==
  [][ \A w \in MatchWindows :
        ( /\ showingAlert
          /\ Truthy(currentAlertApp)
          /\ RequestId(SampleApp[w]) # RequestId(currentAlertApp)
          /\ PendingUpd.showingAlert = <<>>
          /\ PendingUpd.currentAlertApp = <<>>
          /\ NotificationDismissed(RequestId(SampleApp[w])) )
        => /\ showingAlert'
           /\ currentAlertApp' = currentAlertApp ]_vars

(* ---------------------------------------------------------------------- *)
(* The timers of the alert component                                       *)
(* ---------------------------------------------------------------------- *)
\* The alert component with its 8 s and 300 ms timers, while the foreground
\* changes between Slack, its helper and the agent's own window.
NextAlert ==
  \/ Commit
  \/ \E w \in MatchWindows : WindowChanged(w)
  \/ AlertClick
  \/ AutoDismiss
  \/ \E i \in 1..Len(timers) : DismissFire(i)

SpecAlert == Init /\ [][NextAlert]_vars

\* React runs pending effects, and the timers of the alert component fire
\* once they are due
SpecAlertLive ==
  /\ SpecAlert
  /\ WF_vars(Commit)
  /\ WF_vars(AutoDismiss)
  /\ WF_vars(\E i \in 1..Len(timers) : DismissFire(i))

\* C32: an alert that is active is eventually dismissed, by its timers alone
C32_AlertEventuallyDismissed == showingAlert ~> ~showingAlert

\* C34: from some moment on the persisted whitelist, dim option and enabled
\* flag equal the values in memory (no command changes a setting here)
C34_PersistenceConverges ==
  <>[]( /\ store.whitelist = <<whitelist>>
        /\ store.enabled = (IF isFocusMode THEN "true" ELSE "false")
        /\ store.dim = (IF dimInsteadOfBlock THEN "true" ELSE "false") )

\* C31: the 300 ms timer armed by the dismissal of one alert does not clear
\* the alert of another app that has replaced it since
C31_TimerDismissesOwnAlert ==
  [][ \A i \in 1..Len(timers) :
        ( /\ timers[i].kind = "dismiss"
          /\ showingAlert
          /\ currentAlertApp # timers[i].app
          /\ PendingUpd.showingAlert = <<>>
          /\ PendingUpd.currentAlertApp = <<>>
          /\ DismissFire(i) )
        => /\ showingAlert'
           /\ currentAlertApp' = currentAlertApp ]_vars

(* ---------------------------------------------------------------------- *)
(* Startup over settings that cannot be read or parsed                     *)
(* ---------------------------------------------------------------------- *)
\* a previous session left "[]" under the whitelist key; the text under a key
\* may be garbage, and the access to localStorage may throw
InitLoad ==
  /\ InitRenderer
  /\ hasElectron = FALSE
  /\ InitMain
  /\ store \in [whitelist : {<< <<>> >>}, garbled : BOOLEAN,
                 enabled : {"none", "garbage"}, dim : {"none", "garbage"},
                 denied : BOOLEAN]
  /\ pureIn = [fn |-> "none"]
  /\ pureOut = <<>>

NextLoad ==
  \/ Commit
  \/ \E w \in ActiveWindows : WindowChanged(w)
  \/ Enable
  \/ Disable
  \/ \E i \in 1..Len(timers) : RaiseFire(i)

SpecLoad == InitLoad /\ [][NextLoad]_vars

\* C21: the first pass of the effects after the mount registers the
\* listeners of the provider, and a setting that could not be read or parsed
\* has its default: empty whitelist, dim option on, focus mode off
C21_FallsBackToDefaults ==
  [][ (~Mounted /\ Commit) =>
        /\ Mounted'
        /\ (store.denied \/ store.garbled) => whitelist' = <<>>
        /\ (store.denied \/ store.dim = "garbage") => dimInsteadOfBlock'
        /\ (store.denied \/ store.enabled = "garbage") => ~isFocusMode'
    ]_vars

(* ---------------------------------------------------------------------- *)
(* The pure functions on their own                                         *)
(* ---------------------------------------------------------------------- *)
\* inputs of normalizeAppName: optional surrounding blanks, a base name and
\* up to MaxSuffixes stacked .exe / .app suffixes, in mixed case
DotExeUpper == <<".", "E", "x", "e">>

RECURSIVE SuffixStacks(_)
SuffixStacks(n) ==
  IF n = 0 THEN {<<>>}
  ELSE SuffixStacks(n - 1) \cup
       {t \o suf : t \in {u \in SuffixStacks(n - 1) : Len(u) = 4 * (n - 1)},
                   suf \in {DotExe, DotApp, DotExeUpper}}

PureBases == {<<>>, <<"A">>, <<"a", " ", " ", "B">>}
PureBlanks == {<<>>, <<" ">>}

NormalizeInputs ==
  {pre \o base \o sufs \o post :
     pre \in PureBlanks, base \in PureBases,
     sufs \in SuffixStacks(MaxSuffixes), post \in PureBlanks} \cup {Null}

\* inputs of isAppInWhitelist: a name, a whitelist of up to MaxPureWl
\* entries and one more entry
PureNames == {slack, <<"a", "-", "b">>, <<"Q">>, <<" ">>, <<>>, Null}
PureEntries == {sla, <<"b", " ", "c">>, <<"x">>, <<"q", ".", "e", "x", "e">>}

RECURSIVE EntryLists(_)
EntryLists(n) ==
  IF n = 0 THEN {<<>>}
  ELSE EntryLists(n - 1) \cup
       {Append(l, x) : l \in {m \in EntryLists(n - 1) : Len(m) = n - 1},
                       x \in PureEntries}

\* probe results handed to the extraction: all sources, the bundle id and
\* the title, the owner name and the title, the title alone
Document1 == <<"D", "o", "c", "u", "m", "e", "n", "t", "1">>
NotepadTitle == Document1 \o <<" ", "-", " ", "N", "o", "t", "e", "p", "a",
                               "d">>
SlackBundle == <<"c", "o", "m", ".", "t", "i", "n", "y", ".", "S", "l", "a",
                 "c", "k">>

PureSamples ==
  { [title |-> NotepadTitle, name |-> SlackName, path |-> SlackPath,
     bundleId |-> SlackBundle],
    [title |-> NotepadTitle, name |-> Null, path |-> Null,
     bundleId |-> SlackBundle],
    [title |-> NotepadTitle, name |-> SlackName, path |-> Null,
     bundleId |-> Null],
    [title |-> NotepadTitle, name |-> Null, path |-> Null,
     bundleId |-> Null] }

\* the event detail of a sample that reaches the renderer as it is
RawWindowInfo(activeWindow) ==
  [ title    |-> activeWindow.title,
    name     |-> activeWindow.name,
    path     |-> activeWindow.path,
    bundleId |-> activeWindow.bundleId,
    appName  |-> Null ]

PureInputs ==
  {[fn |-> "normalize", x |-> x] : x \in NormalizeInputs} \cup
  {[fn |-> "extract", w |-> w] : w \in PureSamples} \cup
  {[fn |-> "isAllowed", name |-> n, wl |-> l, e |-> e] :
     n \in PureNames, l \in EntryLists(MaxPureWl), e \in PureEntries}

\* normalizeAppName applied to the input, then to its own result
Normalize ==
  /\ pureIn.fn = "normalize"
  /\ Len(pureOut) < 2
  /\ pureOut' = Append(pureOut,
                       normalizeAppName(IF pureOut = <<>> THEN pureIn.x
                                        ELSE pureOut[Len(pureOut)]))
  /\ UNCHANGED <<rendererVars, pureIn, mainVars>>

\* isAppInWhitelist for the whitelist, then for the whitelist with one more
\* entry
IsAllowed ==
  /\ pureIn.fn = "isAllowed"
  /\ Len(pureOut) < 2
  /\ pureOut' = Append(pureOut,
                       isAppInWhitelist(pureIn.name,
                                        IF pureOut = <<>> THEN pureIn.wl
                                        ELSE Append(pureIn.wl, pureIn.e)))
  /\ UNCHANGED <<rendererVars, pureIn, mainVars>>

\* extractAppName for the windowInfo the sampler builds of the sample, then
\* for the sample as it is
Extract ==
  /\ pureIn.fn = "extract"
  /\ Len(pureOut) < 2
  /\ pureOut' = Append(pureOut,
                       extractAppName(IF pureOut = <<>>
                                        THEN BuildWindowInfo(pureIn.w)
                                        ELSE RawWindowInfo(pureIn.w)))
  /\ UNCHANGED <<rendererVars, pureIn, mainVars>>

InitPure ==
  /\ InitRenderer
  /\ hasElectron = FALSE
  /\ InitMain
  /\ store = [whitelist |-> <<>>, garbled |-> FALSE, enabled |-> "none",
              dim |-> "none", denied |-> FALSE]
  /\ pureIn \in PureInputs
  /\ pureOut = <<>>

NextPure == Normalize \/ IsAllowed \/ Extract

SpecPure == InitPure /\ [][NextPure]_vars

\* C5: normalizeAppName returns a string for every input, and applying it to
\* its own result changes nothing
C5_NormalizeIdempotent ==
  (pureIn.fn = "normalize" /\ Len(pureOut) = 2) => pureOut[2] = pureOut[1]

\* C6: when a name is allowed under a whitelist, it is allowed under that
\* whitelist with one more entry appended
C6_AllowedMonotonic ==
  (pureIn.fn = "isAllowed" /\ Len(pureOut) = 2 /\ pureOut[1]) => pureOut[2]

\* a name allowed by its whitelist, checked again after an entry that does not
\* match it was appended
C6_Witness ==
  /\ pureIn.fn = "isAllowed"
  /\ Len(pureOut) = 2
  /\ pureOut[1]
  /\ pureIn.name = slack
  /\ pureIn.wl = <<sla>>
  /\ pureIn.e = <<"x">>
  /\ ~isAppInWhitelist(pureIn.name, <<pureIn.e>>)

\* C17: a name whose normalized form is empty is not allowed, whatever the
\* whitelist
C17_EmptyIdentityNotAllowed ==
  ( /\ pureIn.fn = "isAllowed"
    /\ Len(pureOut) >= 1
    /\ normalizeAppName(pureIn.name) = <<>> )
  => ~pureOut[1]

\* C18: the extracted identity is the normalized first non-empty one of the
\* executable's base name, the last segment of the bundle id, the owner name
\* and the name parsed from the title
C18_Expected(w) ==
  LET candidates ==
        << IF Truthy(w.path) THEN getExecutableName(w.path) ELSE Null,
           IF Truthy(w.bundleId) THEN getBundleAppName(w.bundleId) ELSE Null,
           w.name,
           extractAppFromTitle(w.title) >>
      kept == SelectSeq(candidates, Truthy)
  IN  IF Len(kept) > 0 THEN normalizeAppName(kept[1]) ELSE <<>>

C18_ExtractPriority ==
  pureIn.fn = "extract"
    => \A k \in 1..Len(pureOut) : pureOut[k] = C18_Expected(pureIn.w)

(* ---------------------------------------------------------------------- *)
(* Properties of the renderer                                              *)
(* ---------------------------------------------------------------------- *)
EffectRaises == {x \in raises : x.by = "effect"}
TimerRaises == {x \in raises : x.by = "timer"}

\* C1: whatever the interleaving of the operations and their timer
\* callbacks, at most one alert is mounted
C1_AtMostOneAlert == Cardinality(alerts) <= 1

\* the monitor effect and the 500 ms callback of Enable raise in the same
\* step, and one alert is mounted
C1_Witness ==
  /\ EffectRaises # {}
  /\ TimerRaises # {}
  /\ Cardinality(alerts) = 1

\* C2: currentAlertApp is set exactly while showingAlert is true
C2_AlertAppIffShowing == (currentAlertApp # Null) <=> showingAlert

\* an alert was raised for slack and has been cleared since
C2_Witness ==
  /\ isFocusMode
  /\ lastNotifiedApp = slack
  /\ ~showingAlert
  /\ currentAlertApp = Null
  /\ raises = {}

\* C3: while focus mode is on, no alert is raised for the agent's own
\* window, whichever operation triggers the raise
C3_NoAlertForOwnApp ==
  isFocusMode => \A x \in raises : ~OwnAppTable[x.app]

\* C7: while focus mode is on, a foreground app that is not the agent's own,
\* not allowed and different from lastNotifiedApp always has the monitor
\* effect scheduled; when the effect runs on its own or with the next window
\* sample, it raises exactly one alert for that app and sets lastNotifiedApp
\* to it; the effect raises for no other app, so a sample carrying the
\* identity in lastNotifiedApp raises no second alert
C7_Violating ==
  /\ isFocusMode
  /\ Truthy(currentActiveApp)
  /\ ~OwnAppTable[currentActiveApp]
  /\ ~Allowed(currentActiveApp, whitelist)
  /\ currentActiveApp # lastNotifiedApp

C7_RaisedForCurrent ==
  /\ raises' = {[app |-> currentActiveApp, by |-> "effect"]}
  /\ lastNotifiedApp' = currentActiveApp
  /\ showingAlert'
  /\ currentAlertApp' = currentActiveApp

C7_MonitorRaisesOnce ==
  [][ /\ C7_Violating => "monitor" \in pending
      /\ ( /\ C7_Violating
           /\ Commit \/ \E w \in ActiveWindows : WindowChanged(w) )
         => C7_RaisedForCurrent
      /\ (EffectRaises' # {})
         => /\ C7_Violating
            /\ EffectRaises' = {[app |-> currentActiveApp, by |-> "effect"]}
    ]_vars

\* the effect has raised the alert for slack
C7_Witness ==
  /\ isFocusMode
  /\ raises = {[app |-> slack, by |-> "effect"]}
  /\ lastNotifiedApp = slack
  /\ showingAlert
  /\ currentAlertApp = slack
  /\ currentActiveApp = slack

\* C8: when the callback of AddToWhitelist adds an entry under which the
\* alert's app becomes allowed, and nothing raises in the same step, the
\* alert is cleared (at once, or by the monitor effect of the resulting
\* render) and lastNotifiedApp is reset
C8_AddClearsAlert ==
  [][ \A i \in 1..Len(timers) :
        ( /\ AddFire(i)
          /\ showingAlert
          /\ ~Allowed(currentAlertApp, whitelist)
          /\ timers[i].app \in Elems(whitelist')
          /\ Allowed(currentAlertApp, whitelist')
          /\ raises' = {} )
        => /\ lastNotifiedApp' = Null
           /\ \/ ~showingAlert' /\ currentAlertApp' = Null
              \/ "monitor" \in pending' /\ MonitorDecision(Cur') = "clear"
    ]_vars

\* C9: when the callback of RemoveFromWhitelist turns the foreground app
\* from allowed to not allowed while focus mode is on, an alert for it is
\* active with lastNotifiedApp set to it, or its raise is under way (the
\* 100 ms callback is armed, or the monitor effect is about to raise)
C9_RaiseUnderWay ==
  \/ showingAlert /\ currentAlertApp = currentActiveApp
       /\ lastNotifiedApp = currentActiveApp
  \/ \E j \in 1..Len(timers) :
       timers[j].kind = "raise" /\ timers[j].app = currentActiveApp
  \/ "monitor" \in pending /\ MonitorDecision(Cur) = "raise"

C9_RemoveRaises ==
  [][ \A i \in 1..Len(timers) :
        ( /\ RemoveFire(i)
          /\ isFocusMode /\ isFocusMode'
          /\ Allowed(currentActiveApp, whitelist)
          /\ ~Allowed(currentActiveApp', whitelist') )
        => C9_RaiseUnderWay' ]_vars

\* C10: while focus mode is off no alert is active
C10_NoAlertWhileDisabled == ~isFocusMode => (~showingAlert /\ alerts = {})

\* C12: Disable leaves lastNotifiedApp and currentActiveApp as they were
\* (no pending effect sets them in the same batch)
C12_DisableKeepsNotified ==
  [][ ( /\ Disable
        /\ PendingUpd.lastNotifiedApp = <<>>
        /\ PendingUpd.currentActiveApp = <<>> )
      => /\ lastNotifiedApp' = lastNotifiedApp
         /\ currentActiveApp' = currentActiveApp ]_vars

\* C13: Enable switches focus mode on and resets lastNotifiedApp; when the
\* foreground app is not the agent's own and not allowed, it arms the raise
\* for that app and the monitor effect is scheduled, whatever lastNotifiedApp
\* was; the armed raise, when it fires with no effect touching the alert in
\* the same batch, makes the alert active for that app and sets
\* lastNotifiedApp to it
C13_EnableReevaluates ==
  [][ /\ (~isFocusMode /\ Enable) =>
           /\ isFocusMode'
           /\ lastNotifiedApp' = Null
           /\ ( /\ Truthy(currentActiveApp)
                /\ ~OwnAppTable[currentActiveApp]
                /\ ~Allowed(currentActiveApp, whitelist) )
              => /\ \E j \in 1..Len(timers') :
                      /\ timers'[j].kind = "raise"
                      /\ timers'[j].app = currentActiveApp
                 /\ "monitor" \in pending'
      /\ \A i \in 1..Len(timers) :
           ( /\ timers[i].kind = "raise"
             /\ timers' = Without(i)
             /\ PendingUpd.showingAlert = <<>>
             /\ PendingUpd.currentAlertApp = <<>>
             /\ PendingUpd.lastNotifiedApp = <<>>
             /\ RaiseFire(i) )
           => /\ [app |-> timers[i].app, by |-> "timer"] \in raises'
              /\ showingAlert'
              /\ currentAlertApp' = timers[i].app
              /\ lastNotifiedApp' = timers[i].app
    ]_vars

\* Enable has reset lastNotifiedApp and armed the raise for slack
C13_Witness ==
  /\ isFocusMode
  /\ lastNotifiedApp = Null
  /\ currentActiveApp = slack
  /\ \E j \in 1..Len(timers) :
       /\ timers[j].kind = "raise"
       /\ timers[j].delay = 500
       /\ timers[j].app = slack

\* C19: once the provider is mounted and has loaded the settings, isFocusMode
\* changes in the steps of Enable and Disable only
C19_EnabledOnlyByToggle ==
  [][ (Mounted /\ isFocusMode' # isFocusMode) => (Enable \/ Disable) ]_vars

\* C20: once the provider is mounted and has loaded the settings, the
\* whitelist changes in the steps of the add and remove callbacks only
C20_WhitelistOnlyByEdits ==
  [][ (Mounted /\ whitelist' # whitelist)
      => \E i \in 1..Len(timers) : AddFire(i) \/ RemoveFire(i) ]_vars

\* C23: while focus mode is off, a window sample sets currentActiveApp and
\* nothing else of isFocusMode, lastNotifiedApp, the alert and the whitelist
\* (the load effect pending from the last render aside), raises no alert, and
\* the monitor effect of the resulting render does nothing
C23_SampleWhileDisabled ==
  [][ \A w \in ActiveWindows :
        ( /\ ~isFocusMode
          /\ timers' = timers
          /\ PendingUpd.isFocusMode = <<>>
          /\ PendingUpd.whitelist = <<>>
          /\ WindowChanged(w) )
        => /\ currentActiveApp' = SampleApp[w]
           /\ isFocusMode' = isFocusMode
           /\ lastNotifiedApp' = lastNotifiedApp
           /\ showingAlert' = showingAlert
           /\ currentAlertApp' = currentAlertApp
           /\ whitelist' = whitelist
           /\ alerts' = alerts
           /\ raises' = {}
           /\ MonitorDecision(Cur') = "none"
    ]_vars

\* Slack has come to the foreground while focus mode is off and the
\* whitelist does not allow it; the monitor effect is scheduled
C23_Witness ==
  /\ ~isFocusMode
  /\ currentActiveApp = slack
  /\ ~Allowed(slack, whitelist)
  /\ lastNotifiedApp = Null
  /\ "monitor" \in pending
  /\ raises = {}
  /\ ~showingAlert

\* C24: while focus mode is on, once the monitor effect has run for a sample
\* of the agent's own window, no alert is active
C24_OwnWindowClearsAlert ==
  [][ ( /\ Commit
        /\ "monitor" \in pending
        /\ isFocusMode
        /\ Truthy(currentActiveApp)
        /\ OwnAppTable[currentActiveApp] )
      => /\ ~showingAlert'
         /\ currentAlertApp' = Null
         /\ alerts' = {} ]_vars

\* C36: a window sample that turns a compliant state into a violation (focus
\* mode on, the foreground app not the agent's own and not allowed) leaves
\* the monitor effect scheduled with the decision to raise, also when the
\* app is the one in lastNotifiedApp (no alert is active before or after
\* the sample, and the whitelist is the same)
C36_Violation ==
  /\ isFocusMode
  /\ Truthy(currentActiveApp)
  /\ ~OwnAppTable[currentActiveApp]
  /\ ~Allowed(currentActiveApp, whitelist)

C37_RaiseTargetsCurrent ==
  [][ /\ \A x \in raises' :
           x.app = currentActiveApp \/ x.app = currentActiveApp'
      /\ lastNotifiedApp' # lastNotifiedApp
           => lastNotifiedApp' \in {Null, currentActiveApp, currentActiveApp'}
    ]_vars

(* ---------------------------------------------------------------------- *)
(* Properties of the dim option and the overlay                            *)
(* ---------------------------------------------------------------------- *)
\* C11: an overlay that exists when Disable is applied is gone once Disable
\* has completed
C11_DisableReleasesOverlay ==
  [][ (Disable /\ overlays # <<>>) => overlays' = <<>> ]_vars

\* C14: at most one overlay element exists, however many times and whenever
\* applyDimEffect is called
C14_AtMostOneOverlay == Len(overlays) <= 1

\* applyDimEffect was called twice in one step, by the delayed raise and by
\* the monitor effect, and one overlay exists
C14_Witness ==
  /\ dimCalls = 2
  /\ Len(overlays) = 1

\* C15: an overlay is created visible, goes from visible to fading and from
\* fading to released and nowhere else, a call of applyDimEffect while it
\* exists changes nothing of it, and every overlay is released in the end
C15_OverlayLifecycle ==
  /\ [][ /\ overlays = <<>> => overlays' \in {<<>>, <<"visible">>}
         /\ overlays = <<"visible">>
              => overlays' \in {<<"visible">>, <<"fading">>}
         /\ overlays = <<"fading">> => overlays' \in {<<"fading">>, <<>>}
         /\ (overlays # <<>> /\ dimCalls' > 0) => overlays' = overlays
       ]_vars
  /\ (overlays # <<>>) ~> (overlays = <<>>)

\* applyDimEffect was called while the overlay was fading out
C15_Witness ==
  /\ overlays = <<"fading">>
  /\ dimCalls > 0

\* C27: every raise of a step calls applyDimEffect when dimInsteadOfBlock is
\* true at that moment, and none does when it is false, the raises of the
\* delayed callbacks included
C27_RaiseDimsIffOption ==
  [][ dimCalls' = IF dimInsteadOfBlock THEN Cardinality(raises') ELSE 0
    ]_vars

\* C16: ToggleDimOption flips dimInsteadOfBlock; the rest of the state is
\* what the effects pending from the last render make of it, unchanged when
\* none is pending, and the mounted alert is the one of that state
C16_Rest(r) ==
  <<r.isFocusMode, r.whitelist, r.currentActiveApp, r.lastNotifiedApp,
    r.showingAlert, r.currentAlertApp>>

C16_ToggleDimFlips ==
  [][ ToggleDimOption =>
        \E e \in {Effects(Cur, pending, store, heardAlertApp)} :
          /\ dimInsteadOfBlock' = ~dimInsteadOfBlock
          /\ C16_Rest(Cur)' = C16_Rest(Apply(Cur, e.upd))
          /\ alerts' = Reconcile(alerts, Apply(Cur, e.upd))
          /\ raises' = e.raised
    ]_vars

(* ---------------------------------------------------------------------- *)
(* The focus popup of the main process                                     *)
(* ---------------------------------------------------------------------- *)
\* notification ids of alert requests
PopupIds == {"focus-mode-slack-1", "focus-mode-slack-2"}

HasId(notificationId) == notificationId # NoId /\ notificationId # ""

\* the id showFocusPopup makes up for a request without one
GeneratedPopupId == "focus-popup-now"

\* the main-process state the handlers read and write
MainState ==
  [last |-> lastProcessedNotificationId, shown |-> shown,
   notified |-> notified]

\* showFocusPopup: skip the id processed last, else record and present it
showFocusPopup(notificationId, m) ==
  IF HasId(notificationId) /\ notificationId = m.last THEN m
  ELSE LET effectiveNotificationId ==
             IF HasId(notificationId) THEN notificationId
             ELSE GeneratedPopupId
       IN  [m EXCEPT !.last = effectiveNotificationId,
                     !.shown = Append(m.shown, effectiveNotificationId)]

\* showNotification: the same test, on the notification window
showNotification(notificationId, m) ==
  IF HasId(notificationId) /\ notificationId = m.last THEN m
  ELSE [m EXCEPT !.last = IF HasId(notificationId) THEN notificationId
                          ELSE m.last,
                 !.notified = Append(m.notified, notificationId)]

\* the renderer or a popup page sends a message on a channel
Send(channel, notificationId) ==
  /\ Len(ipc) + Len(handled) < MaxMessages
  /\ ipc' = Append(ipc, [channel |-> channel, id |-> notificationId])
  /\ UNCHANGED <<lastProcessedNotificationId, handled, shown, notified,
                 sampler, now, probes, sent, probeLog, windows, rendererVars,
                 pureVars>>

SendFocusPopup(notificationId) == Send("show-focus-popup", notificationId)

SendDismissed(notificationId) == Send("notification-dismissed", notificationId)

SendNative(notificationId) == Send("show-native-notification", notificationId)

Handled(channel, m) ==
  /\ ipc # <<>>
  /\ Head(ipc).channel = channel
  /\ ipc' = Tail(ipc)
  /\ handled' = Append(handled, Head(ipc))
  /\ lastProcessedNotificationId' = m.last
  /\ shown' = m.shown
  /\ notified' = m.notified
  /\ windows' = [focusPopupWindow |->
                   IF m.shown # shown THEN "shown"
                   ELSE windows.focusPopupWindow,
                 notificationWindow |->
                   IF m.notified # notified THEN "shown"
                   ELSE windows.notificationWindow]
  /\ UNCHANGED <<sampler, now, probes, sent, probeLog, rendererVars,
                 pureVars>>

\* both ipcMain.on('show-focus-popup') listeners run for one message
OnShowFocusPopup ==
  /\ ipc # <<>>
  /\ Handled("show-focus-popup",
             showFocusPopup(Head(ipc).id,
                            showFocusPopup(Head(ipc).id, MainState)))

\* ipcMain.on('notification-dismissed')
OnNotificationDismissed ==
  /\ ipc # <<>>
  /\ Handled("notification-dismissed",
             [MainState EXCEPT !.last = Head(ipc).id])

\* ipcMain.on('show-native-notification')
OnShowNativeNotification ==
  /\ ipc # <<>>
  /\ Handled("show-native-notification",
             showNotification(Head(ipc).id, MainState))

\* the page of the focus popup closes its window, by its 8 s timer or by a
\* click; the 'closed' listener drops the reference
PopupClose ==
  /\ windows.focusPopupWindow = "shown"
  /\ windows' = [windows EXCEPT !.focusPopupWindow = "closed"]
  /\ UNCHANGED <<lastProcessedNotificationId, ipc, handled, shown, notified,
                 sampler, now, probes, sent, probeLog, rendererVars, pureVars>>

\* app.on('before-quit')
BeforeQuit ==
  /\ ~sampler.isAppQuitting
  /\ sampler' = [sampler EXCEPT !.isAppQuitting = TRUE,
                                !.activeWindowInterval = FALSE]
  /\ windows' = [focusPopupWindow |-> "closed",
                 notificationWindow |-> "closed"]
  /\ UNCHANGED <<lastProcessedNotificationId, ipc, handled, shown, notified,
                 now, probes, sent, probeLog, rendererVars, pureVars>>

InitPopup ==
  /\ InitRenderer
  /\ hasElectron = FALSE
  /\ store = [whitelist |-> <<>>, garbled |-> FALSE, enabled |-> "none",
              dim |-> "none", denied |-> FALSE]
  /\ pureIn = [fn |-> "none"]
  /\ pureOut = <<>>
  /\ InitMain

NextPopup ==
  \/ \E id \in PopupIds : SendFocusPopup(id)
  \/ \E id \in PopupIds : SendDismissed(id)
  \/ \E id \in PopupIds : SendNative(id)
  \/ OnShowFocusPopup
  \/ OnNotificationDismissed
  \/ OnShowNativeNotification

SpecPopup == InitPopup /\ [][NextPopup]_vars

(* ---------------------------------------------------------------------- *)
(* The active-window sampler of the main process                           *)
(* ---------------------------------------------------------------------- *)
\* periods of the sampling interval that pass in one run
MaxTicks == 3
\* calls of activeWin() that are unsettled at a time
MaxProbes == 2

\* how a call of activeWin() settles: with a window, with undefined, or by
\* rejecting
ProbeOutcomes ==
  {[kind |-> "window", activeWindow |-> w] : w \in ActiveWindows}
    \cup {[kind |-> "none"], [kind |-> "failed"]}

\* a callback that forgets the previous sample when the probe yields nothing
probeSettledForgets(s, o, t) ==
  IF o.kind # "window"
    THEN [sampler |-> [s EXCEPT !.lastActiveWindow = <<>>,
                                !.lastActiveWindowTime = t],
          sent |-> <<>>]
  ELSE LET same == /\ s.lastActiveWindow # <<>>
                   /\ s.lastActiveWindow[1].path = o.activeWindow.path
       IN  [sampler |->
              [s EXCEPT !.lastActiveWindow = <<o.activeWindow>>,
                        !.lastActiveWindowTime =
                           IF same THEN s.lastActiveWindowTime ELSE t],
            sent |->
              << [windowInfo |-> BuildWindowInfo(o.activeWindow),
                  timeActive |-> IF same THEN t - s.lastActiveWindowTime
                                 ELSE 0,
                  timestamp |-> t] >>]

\* the rest of the interval callback once activeWin() has settled at time t:
\* the sampler state it leaves and the messages it sends
probeSettled(s, o, t) ==
  IF o.kind # "window" THEN [sampler |-> s, sent |-> <<>>]
  ELSE LET same == /\ s.lastActiveWindow # <<>>
                   /\ s.lastActiveWindow[1].path = o.activeWindow.path
       IN  [sampler |->
              [s EXCEPT !.lastActiveWindow = <<o.activeWindow>>,
                        !.lastActiveWindowTime =
                           IF same THEN s.lastActiveWindowTime ELSE t],
            sent |->
              << [windowInfo |-> BuildWindowInfo(o.activeWindow),
                  timeActive |-> IF same THEN t - s.lastActiveWindowTime
                                 ELSE 0,
                  timestamp |-> t] >>]

\* the interval fires: the callback returns while monitoring is paused or
\* the app is quitting, else it calls activeWin()
Tick ==
  /\ sampler.activeWindowInterval
  /\ now < MaxTicks
  /\ Len(probes) < MaxProbes
  /\ now' = now + 1
  /\ probes' = IF ~sampler.isMonitoring \/ sampler.isAppQuitting
                 THEN probes ELSE Append(probes, now + 1)
  /\ UNCHANGED <<sampler, sent, probeLog, lastProcessedNotificationId, ipc,
                 handled, shown, notified, windows, rendererVars, pureVars>>

\* probe i settles with outcome o
ProbeDone(i, o) ==
  /\ i \in 1..Len(probes)
  /\ \E r \in {probeSettled(sampler, o, now)} :
       /\ sampler' = r.sampler
       /\ sent' = sent \o r.sent
  /\ probes' = SubSeq(probes, 1, i - 1) \o SubSeq(probes, i + 1, Len(probes))
  /\ probeLog' = Append(probeLog, o.kind)
  /\ UNCHANGED <<now, lastProcessedNotificationId, ipc, handled, shown,
                 notified, windows, rendererVars, pureVars>>

NextSampler ==
  \/ Tick
  \/ \E i \in 1..Len(probes) : \E o \in ProbeOutcomes : ProbeDone(i, o)
  \/ BeforeQuit

SpecSampler == InitPopup /\ [][NextSampler]_vars

\* C35: once before-quit has run, the interval is cleared, no further
\* 'active-window-changed' message is sent and both popup windows are closed
C35_TeardownStopsSampler ==
  [][ sampler.isAppQuitting =>
        /\ sent' = sent
        /\ ~sampler'.activeWindowInterval
        /\ windows'.focusPopupWindow = "closed"
        /\ windows'.notificationWindow = "closed" ]_vars

\* C28: at most one call of activeWin() is unsettled at any time
C28_OneProbeInFlight == Len(probes) <= 1

\* C29: a probe that rejects or yields no window leaves the sampler state
\* (previous sample, dwell clock, interval) as it is and sends no message,
\* and the tick after it calls activeWin() again
C29_FailedProbeSkips ==
  [][ /\ \A i \in 1..Len(probes) : \A o \in ProbeOutcomes :
           (o.kind # "window" /\ ProbeDone(i, o))
           => /\ sampler' = sampler
              /\ sent' = sent
      /\ (Tick /\ probeLog # <<>> /\ probeLog[Len(probeLog)] # "window")
           => Len(probes') = Len(probes) + 1
    ]_vars

\* Slack was sampled, the next probe rejected, and the probe of the tick
\* after it has sent Slack again with its dwell time
C29_Witness ==
  /\ probeLog = <<"window", "failed", "window">>
  /\ Len(sent) = 2
  /\ sent[2].timeActive = 2
  /\ sent[2].windowInfo.name = SlackName

(* ---------------------------------------------------------------------- *)
(* The provider and the focus popup together                               *)
(* ---------------------------------------------------------------------- *)
\* The page runs in the Electron window with focus mode left on by the
\* previous session and an empty whitelist; the main process presents what
\* the renderer requests.
InitSurface ==
  /\ InitRenderer
  /\ hasElectron = TRUE
  /\ InitMain
  /\ store = [whitelist |-> <<>>, garbled |-> FALSE, enabled |-> "true",
              dim |-> "none", denied |-> FALSE]
  /\ pureIn = [fn |-> "none"]
  /\ pureOut = <<>>

NextSurface ==
  \/ Commit
  \/ \E w \in ActiveWindows : WindowChanged(w)
  \/ Disable
  \/ OnShowFocusPopup
  \/ PopupClose

SpecSurface == InitSurface /\ [][NextSurface]_vars

\* C33: a step that clears the alert while the focus popup is shown closes
\* the popup or sends the main process a message about it
C33_ClearDismissesPopup ==
  [][ ( /\ showingAlert
        /\ ~showingAlert'
        /\ windows.focusPopupWindow = "shown" )
      => \/ windows'.focusPopupWindow # "shown"
         \/ Len(ipc') > Len(ipc) ]_vars

Count(seq, x) == Cardinality({i \in 1..Len(seq) : seq[i] = x})

\* C4: an id is presented by the focus popup at most once, whatever
\* is dispatched or dismissed between two requests that carry it
C4_OnePresentationPerId == \A id \in PopupIds : Count(shown, id) <= 1

\* C39: the focus popup does not present, for one app, both the request of a
\* raise and the request of the alert component that the raise mounts
C39_OnePresentationPerRaise ==
  \A w \in ActiveWindows :
    ~ /\ Count(shown, FocusModeId(SampleApp[w])) > 0
      /\ Count(shown, FocusAlertId(SampleApp[w])) > 0
====
